---------------------------- MODULE Spec2Model ----------------------------
(***************************************************************************)
(* A model of the recursive web crawler service:                           *)
(*   - the streaming anchor extractor (service/src/parser.rs),             *)
(*   - the crawl orchestrator (service/src/crawler.rs),                    *)
(*   - the per-URL crawl job (service/src/url_worker.rs),                  *)
(*   - the per-domain switch (service/src/base_url.rs).                    *)
(* ParserSpec drives one AnchorHrefIterator over a bounded set of page      *)
(* texts; Spec, GateSpec, TimedSpec, PortSpec and HomeSpec run the         *)
(* orchestrator with its concurrent tasks over two small sites; FairSpec,  *)
(* StopSpec and CrawlSpec add the fairness of the runtime for the liveness *)
(* properties; NormSpec and RenderSpec apply the pure functions of         *)
(* crawler.rs to bounded sets of arguments.                                *)
(***************************************************************************)
EXTENDS Integers, Sequences, FiniteSets, Bags, TLC

VARIABLES
    iter,         \* ParserSpec: the AnchorHrefIterator
    hrefs,        \* ParserSpec: the items next() has returned so far
    pstate,       \* ParserSpec: "running", "done" (next() returned None), "panicked"
    base_urls,    \* Crawler.base_urls: domain-only Url -> BaseUrl
    url_workers,  \* Crawler.url_workers: Url -> the UrlWorker object (an index of workers)
    workers,      \* the UrlWorker objects ever created, each behind its own RwLock
    url_parents,  \* Crawler.url_parents: Url -> set of child Urls
    locks,        \* the RwLocks of the three registries
    tasks,        \* the tasks of the runtime that have not finished (a bag)
    now,          \* Local::now(), in ticks
    printed,      \* the error kinds the last step wrote to stderr
    last,         \* the result the last step returned, if it returned from a call
    ncmds,        \* the number of commands received
    call          \* NormSpec, RenderSpec: the function applied, its argument and result

pvars == <<iter, hrefs, pstate, call>>

cvars == <<base_urls, url_workers, workers, url_parents, locks, tasks, now, printed, last,
           ncmds>>

vars == <<iter, hrefs, pstate, call, base_urls, url_workers, workers, url_parents, locks, tasks,
          now, printed, last, ncmds>>

(***************************************************************************)
(* Bounds of the model.                                                    *)
(***************************************************************************)
\* number of fragments a page text of ParserSpec is built from
MaxFrags == 3
\* largest partition count (max_index) ParserSpec calls find_anchors with
MaxN == 3
\* largest partition index ParserSpec calls find_anchors with
MaxIndex == 3
\* number of commands the operator sends
MaxCmds == 2
\* number of unfinished tasks the runtime holds at a time
MaxTasks == 5
\* number of UrlWorker objects created
MaxWorkers == 3
\* the clock stops after MaxTime ticks
MaxTime == 2

\* number of characters of the path of a URL of NormSpec
MaxPath == 3
\* ticks of the clock per minute
TicksPerMinute == 2

(***************************************************************************)
(* Generic helpers.                                                        *)
(***************************************************************************)
None == [some |-> FALSE, val |-> <<>>]

Some(v) == [some |-> TRUE, val |-> v]

NoChar == ""

RECURSIVE Concat(_)
Concat(ss) == IF ss = <<>> THEN <<>> ELSE Head(ss) \o Concat(Tail(ss))

SeqsUpTo(S, n) == UNION {[1..k -> S] : k \in 0..n}

(***************************************************************************)
(* Page texts: sequences of characters.  The texts ParserSpec scans are    *)
(* concatenations of at most MaxFrags of the fragments below.              *)
(***************************************************************************)
DQ == "\""

SQ == "'"

\* <a href="x">t</a>
FragAnchorX == <<"<", "a", " ", "h", "r", "e", "f", "=", DQ, "x", DQ, ">", "t", "<", "/", "a", ">">>

\* <a id="i" href='y'></a>
FragAnchorY == <<"<", "a", " ", "i", "d", "=", DQ, "i", DQ, " ", "h", "r", "e", "f", "=", SQ, "y", SQ, ">", "<", "/", "a", ">">>

\* <a>t</a>
FragAnchorNoHref == <<"<", "a", ">", "t", "<", "/", "a", ">">>

\* <a href="z">   (an anchor that is opened and not closed)
FragOpenZ == <<"<", "a", " ", "h", "r", "e", "f", "=", DQ, "z", DQ, ">">>

\* </a>
FragClose == <<"<", "/", "a", ">">>

\* <b>t>
FragOther == <<"<", "b", ">", "t", ">">>

Fragments == {FragAnchorX, FragAnchorY, FragAnchorNoHref, FragOpenZ, FragClose, FragOther}

Texts == {Concat(fs) : fs \in SeqsUpTo(Fragments, MaxFrags)}

(***************************************************************************)
(* parser.rs: AnchorHrefIterator.                                          *)
(***************************************************************************)
\* char::is_whitespace, over the characters the texts use
IsWhitespace(c) == c = " "

\* String::starts_with('/')
StartsWithSlash(s) == Len(s) > 0 /\ Head(s) = "/"

\* str::trim_start_matches('/')
RECURSIVE TrimStartSlashes(_)
TrimStartSlashes(s) == IF StartsWithSlash(s) THEN TrimStartSlashes(Tail(s)) ELSE s

TagA == <<"a">>

AttrHref == <<"h", "r", "e", "f">>

\* AnchorHrefIterator::new.  html is the text, pos the number of characters
\* the Chars iterator has handed out.
AnchorHrefIterator_new(html, index, max_index) ==
    [html |-> html, pos |-> 0, index |-> index, max_index |-> max_index,
     anchor_tag_counter |-> 0, in_tag |-> FALSE, in_anchor_tag_text |-> FALSE,
     has_tag_name |-> FALSE, tag_name |-> <<>>, current_attr |-> <<>>,
     current_value |-> <<>>, is_in_href |-> FALSE, is_in_value |-> FALSE,
     quote_char |-> NoChar, pending_href |-> None]

\* the arm '<' of the match (parser.rs:51-60)
ArmLt(st) ==
    [st EXCEPT !.in_tag = TRUE, !.tag_name = <<>>, !.has_tag_name = FALSE,
               !.current_attr = <<>>, !.current_value = <<>>,
               !.is_in_href = FALSE, !.is_in_value = FALSE, !.quote_char = NoChar]

\* mutant: the partition test adds the index instead of comparing with it
Partition_AddsIndex(counter, index, max_index) == ((counter + index) % max_index) = 0

\* whether the anchor numbered counter belongs to partition index of max_index
\* (parser.rs:77)

Partition(counter, index, max_index) == (counter % max_index) = index

\* mutant: the counter is incremented only for the anchors this partition
\* returns (the increment of parser.rs:81 is missing)
CloseWithHref_NoSkipIncrement(st) ==
    LET taken == [st EXCEPT !.pending_href = None] IN
    IF st.max_index = 0
    THEN [st |-> taken, ret |-> "panic", href |-> <<>>]
    ELSE IF Partition(st.anchor_tag_counter, st.index, st.max_index)
         THEN [st |-> [taken EXCEPT !.anchor_tag_counter = @ + 1],
               ret |-> "yield", href |-> st.pending_href.val]
         ELSE [st |-> taken, ret |-> "continue", href |-> <<>>]

\* mutant: a partition count of 0 is skipped (a checked remainder) instead of
\* faulting
CloseWithHref_CheckedRem(st) ==
    LET taken == [st EXCEPT !.pending_href = None] IN
    IF st.max_index = 0
    THEN [st |-> [taken EXCEPT !.anchor_tag_counter = @ + 1], ret |-> "continue", href |-> <<>>]
    ELSE IF Partition(st.anchor_tag_counter, st.index, st.max_index)
         THEN [st |-> [taken EXCEPT !.anchor_tag_counter = @ + 1],
               ret |-> "yield", href |-> st.pending_href.val]
         ELSE [st |-> [taken EXCEPT !.anchor_tag_counter = @ + 1],
               ret |-> "continue", href |-> <<>>]

\* the statement executed for an anchor that is closed with a pending href
\* (parser.rs:76-82).  ret is "yield" (return Some(href)), "continue" or
\* "panic" (the remainder by zero of anchor_tag_counter % max_index).
CloseWithHref(st) ==
    LET taken == [st EXCEPT !.pending_href = None] IN
    IF st.max_index = 0
    THEN [st |-> taken, ret |-> "panic", href |-> <<>>]
    ELSE IF Partition(st.anchor_tag_counter, st.index, st.max_index)
         THEN [st |-> [taken EXCEPT !.anchor_tag_counter = @ + 1],
               ret |-> "yield", href |-> st.pending_href.val]
         ELSE [st |-> [taken EXCEPT !.anchor_tag_counter = @ + 1],
               ret |-> "continue", href |-> <<>>]

\* whether the tag that a '>' ends closes the open anchor (parser.rs:70-73)
ClosesAnchor(st) ==
    /\ st.in_tag
    /\ st.tag_name # TagA
    /\ StartsWithSlash(st.tag_name)
    /\ TrimStartSlashes(st.tag_name) = TagA
    /\ st.in_anchor_tag_text

\* mutant: the pending href is returned when the opening tag ends
ArmGt_YieldsOnOpen(st) ==
    IF ~st.in_tag
    THEN [st |-> st, ret |-> "continue", href |-> <<>>]
    ELSE LET s1 == [st EXCEPT !.in_tag = FALSE] IN
         IF st.tag_name = TagA
         THEN LET s2 == [s1 EXCEPT !.in_anchor_tag_text = TRUE] IN
              IF s2.pending_href.some
              THEN CloseWithHref(s2)
              ELSE [st |-> s2, ret |-> "continue", href |-> <<>>]
         ELSE IF ClosesAnchor(st)
              THEN [st |-> [s1 EXCEPT !.in_anchor_tag_text = FALSE], ret |-> "continue", href |-> <<>>]
              ELSE [st |-> s1, ret |-> "continue", href |-> <<>>]

\* the arm '>' of the match (parser.rs:61-85)
ArmGt(st) ==
    IF ~st.in_tag
    THEN [st |-> st, ret |-> "continue", href |-> <<>>]
    ELSE LET s1 == [st EXCEPT !.in_tag = FALSE] IN
         IF st.tag_name = TagA
         THEN [st |-> [s1 EXCEPT !.in_anchor_tag_text = TRUE], ret |-> "continue", href |-> <<>>]
         ELSE IF ClosesAnchor(st)
              THEN LET s2 == [s1 EXCEPT !.in_anchor_tag_text = FALSE] IN
                   IF s2.pending_href.some
                   THEN CloseWithHref(s2)
                   ELSE [st |-> s2, ret |-> "continue", href |-> <<>>]
              ELSE [st |-> s1, ret |-> "continue", href |-> <<>>]

\* the arm for every other character (parser.rs:86-138)
ArmOther(st, c) ==
    IF ~st.in_tag THEN st
    ELSE IF ~st.has_tag_name
    THEN IF IsWhitespace(c)
         THEN IF Len(st.tag_name) > 0 THEN [st EXCEPT !.has_tag_name = TRUE] ELSE st
         ELSE [st EXCEPT !.tag_name = Append(@, c)]
    ELSE IF st.tag_name # TagA THEN st
    ELSE IF ~st.is_in_value
    THEN IF IsWhitespace(c) THEN st
         ELSE IF c = "="
         THEN [st EXCEPT !.is_in_value = TRUE, !.current_value = <<>>,
                         !.quote_char = NoChar,
                         !.is_in_href = IF st.current_attr = AttrHref THEN TRUE ELSE @]
         ELSE IF c # "/" THEN [st EXCEPT !.current_attr = Append(@, c)]
         ELSE st
    ELSE IF st.quote_char = NoChar
    THEN IF c = DQ \/ c = SQ THEN [st EXCEPT !.quote_char = c] ELSE st
    ELSE IF c = st.quote_char
    THEN [st EXCEPT !.pending_href = IF st.is_in_href THEN Some(st.current_value) ELSE @,
                    !.is_in_value = FALSE, !.is_in_href = FALSE,
                    !.current_attr = <<>>, !.current_value = <<>>,
                    !.quote_char = NoChar]
    ELSE [st EXCEPT !.current_value = Append(@, c)]

\* one iteration of the while loop of next (parser.rs:49-140): the character
\* c has been taken from html
ScanChar(st, c) ==
    IF c = "<" THEN [st |-> ArmLt(st), ret |-> "continue", href |-> <<>>]
    ELSE IF c = ">" THEN ArmGt(st)
    ELSE [st |-> ArmOther(st, c), ret |-> "continue", href |-> <<>>]

\* Iterator::next (parser.rs:48-142): scans until an href is returned, the
\* text ends (ret = "none") or the remainder by zero faults (ret = "panic")
RECURSIVE IterNext(_)
IterNext(st) ==
    IF st.pos >= Len(st.html)
    THEN [st |-> st, ret |-> "none", href |-> <<>>]
    ELSE LET r == ScanChar([st EXCEPT !.pos = @ + 1], st.html[st.pos + 1]) IN
         IF r.ret = "continue" THEN IterNext(r.st) ELSE r

\* find_anchors(html, index, max_index).collect(): the items are the hrefs
\* with the position of the '>' at which each was returned
RECURSIVE CollectFrom(_, _)
CollectFrom(st, acc) ==
    LET r == IterNext(st) IN
    IF r.ret = "yield"
    THEN CollectFrom(r.st, Append(acc, [href |-> r.href, at |-> r.st.pos]))
    ELSE [items |-> acc, panicked |-> r.ret = "panic", final |-> r.st]

find_anchors(html, index, max_index) ==
    CollectFrom(AnchorHrefIterator_new(html, index, max_index), <<>>)

(***************************************************************************)
(* URLs.  A Url is the record the url crate parses a string into; strings  *)
(* are sequences of characters.  The scheme is always http here.           *)
(***************************************************************************)
HttpPrefix == <<"h", "t", "t", "p", ":", "/", "/">>

Digits == {"0", "1", "2", "3", "4", "5", "6", "7", "8", "9"}

HasPrefix(s, p) == Len(s) >= Len(p) /\ SubSeq(s, 1, Len(p)) = p

\* the first position of s at or after from that holds a character of cs,
\* Len(s) + 1 when there is none
FirstOf(s, cs, from) ==
    LET hits == {k \in from..Len(s) : s[k] \in cs} IN
    IF hits = {} THEN Len(s) + 1 ELSE CHOOSE k \in hits : \A j \in hits : k <= j

\* the last position of s that holds c, 0 when there is none
LastOf(s, c) ==
    LET hits == {k \in 1..Len(s) : s[k] = c} IN
    IF hits = {} THEN 0 ELSE CHOOSE k \in hits : \A j \in hits : k >= j

\* Url::set_path on an http URL: the path always starts with '/'
SetPath(u, p) ==
    [u EXCEPT !.path = IF p = <<>> \/ Head(p) # "/" THEN <<"/">> \o p ELSE p]

\* path, ?query and #fragment of the tail t of a URL string, put into u
WithPathQueryFragment(u, t) ==
    LET h == FirstOf(t, {"#"}, 1)
        beforeFrag == SubSeq(t, 1, h - 1)
        q == FirstOf(beforeFrag, {"?"}, 1)
    IN [SetPath(u, SubSeq(beforeFrag, 1, q - 1)) EXCEPT
            !.query = IF q <= Len(beforeFrag) THEN Some(SubSeq(beforeFrag, q + 1, Len(beforeFrag))) ELSE None,
            !.fragment = IF h <= Len(t) THEN Some(SubSeq(t, h + 1, Len(t))) ELSE None]

\* Url::parse of a string: [ok |-> TRUE, url |-> ..] or [ok |-> FALSE, err |-> ..]
UrlParse(s) ==
    IF ~HasPrefix(s, HttpPrefix)
    THEN [ok |-> FALSE, err |-> "RelativeUrlWithoutBase"]
    ELSE LET rest == SubSeq(s, Len(HttpPrefix) + 1, Len(s))
             e == FirstOf(rest, {"/", "?", "#"}, 1)
             authority == SubSeq(rest, 1, e - 1)
             c == FirstOf(authority, {":"}, 1)
             host == SubSeq(authority, 1, c - 1)
             port == SubSeq(authority, c + 1, Len(authority))
         IN IF host = <<>> THEN [ok |-> FALSE, err |-> "EmptyHost"]
            ELSE IF \E k \in 1..Len(port) : port[k] \notin Digits
            THEN [ok |-> FALSE, err |-> "InvalidPort"]
            ELSE [ok |-> TRUE,
                  url |-> WithPathQueryFragment(
                      [scheme |-> "http", host |-> host, port |-> port,
                       path |-> <<"/">>, query |-> None, fragment |-> None],
                      SubSeq(rest, e, Len(rest)))]

\* Url::join: s resolved against base (hrefs without dot segments)
UrlJoin(base, s) ==
    IF HasPrefix(s, HttpPrefix) THEN UrlParse(s)
    ELSE IF s # <<>> /\ Head(s) = "/"
    THEN [ok |-> TRUE, url |-> WithPathQueryFragment(base, s)]
    ELSE [ok |-> TRUE,
          url |-> WithPathQueryFragment(base, SubSeq(base.path, 1, LastOf(base.path, "/")) \o s)]

\* crawler.rs: strip_url_to_domain
strip_url_to_domain(url) ==
    [SetPath(url, <<>>) EXCEPT !.query = None, !.fragment = None]

\* crawler.rs: strip_url_to_domain_and_path
strip_url_to_domain_and_path(url) ==
    LET u == [url EXCEPT !.query = None, !.fragment = None] IN
    IF u.path # <<>> /\ u.path[Len(u.path)] = "/"
    THEN SetPath(u, SubSeq(u.path, 1, Len(u.path) - 1))
    ELSE u

\* url_worker.rs: have_same_base
have_same_base(url1, url2) == url1.scheme = url2.scheme /\ url1.host = url2.host

(***************************************************************************)
(* The site that is crawled: fetch(url) returns the text of the page.      *)
(***************************************************************************)
\* <a href="HREF">t</a>
Anchor(href) ==
    <<"<", "a", " ", "h", "r", "e", "f", "=", DQ>> \o href \o <<DQ, ">", "t", "<", "/", "a", ">">>

HostD == <<"d">>

\* the page at http://d/a links to /b twice and to another site
PageA == Anchor(<<"/", "b">>) \o Anchor(<<"b">>) \o Anchor(HttpPrefix \o <<"e", "/", "q">>)

\* the page at http://d/b links back to /a, to itself and to another port
\* of its host
PageB == Anchor(<<"/", "a">>) \o Anchor(<<"/", "b", "/">>) \o Anchor(HttpPrefix \o <<"d", ":", "8", "/", "b">>)

\* the page at http://d/ links to /a
PageRoot == Anchor(<<"/", "a">>)

\* a second site: its page http://h/x links to the home page of the site,
\* and the home page links to /x
HostH == <<"h">>

PageX == Anchor(<<"/">>)

PageHome == Anchor(<<"/", "x">>)

SitePage(url) ==
    IF url.host = HostH /\ url.port = <<>>
    THEN IF url.path = <<"/", "x">> THEN PageX
         ELSE IF url.path = <<"/">> THEN PageHome
         ELSE <<>>
    ELSE IF url.host # HostD \/ url.port # <<>> THEN <<>>
    ELSE IF url.path = <<"/", "a">> THEN PageA
    ELSE IF url.path = <<"/", "b">> THEN PageB
    ELSE IF url.path = <<"/">> THEN PageRoot
    ELSE <<>>

\* the strings the operator sends with Start and Stop
RawA == HttpPrefix \o <<"d", "/", "a">>

RawRoot == HttpPrefix \o <<"d">>

RawBad == <<"d", "/", "a">>

\* the root of another port of the host
RawPort == HttpPrefix \o <<"d", ":", "8">>

\* a page of the second site
RawX == HttpPrefix \o <<"h", "/", "x">>

StartRaws == {RawA, RawRoot, RawBad}

StopRaws == {RawRoot}

(***************************************************************************)
(* url_worker.rs and base_url.rs.                                          *)
(***************************************************************************)
URL_MAX_STALE_MINUTES == 1

PARSER_WORKER_COUNT == 4

\* BaseUrl::new
BaseUrl_new == [crawling |-> FALSE]

\* UrlWorker::new; locked is the write half of the RwLock around the object
UrlWorker_new(url) == [url |-> url, last_access_timestamp |-> None, locked |-> FALSE]

\* Duration::num_minutes of now.signed_duration_since(timestamp)
NumMinutes(timestamp, t) == (t - timestamp) \div TicksPerMinute

\* mutant: a job is fetched again whenever it is started
SkipsFetch_Never(timestamp, t) == FALSE

\* mutant: a job is still fresh when exactly the window has elapsed
SkipsFetch_Inclusive(timestamp, t) ==
    timestamp.some /\ NumMinutes(timestamp.val, t) <= URL_MAX_STALE_MINUTES

\* UrlWorker::start, the staleness test (url_worker.rs:33-40)
SkipsFetch(timestamp, t) ==
    timestamp.some /\ NumMinutes(timestamp.val, t) < URL_MAX_STALE_MINUTES

\* UrlWorker::parser_worker_handle_link (url_worker.rs:85-115)
parser_worker_handle_link(previous_url, link_url) ==
    LET p == UrlParse(link_url)
        r == IF p.ok THEN p
             ELSE IF p.err \in {"RelativeUrlWithoutBase", "EmptyHost"}
             THEN LET j == UrlJoin(previous_url, link_url) IN
                  IF j.ok THEN j ELSE [ok |-> FALSE, err |-> "FailedToResolveRelativeUrl"]
             ELSE [ok |-> FALSE, err |-> "CannotParseLinkUrl"]
    IN IF ~r.ok THEN r
       ELSE IF ~have_same_base(previous_url, r.url)
       THEN [ok |-> FALSE, err |-> "LinkUrlDoesNotMatchBaseUrl"]
       ELSE r

\* error.rs: CrawlerError::should_display_error
should_display_error(err) ==
    err \notin {"LinkUrlDoesNotMatchBaseUrl", "BaseUrlHasStoppedCrawling"}

(***************************************************************************)
(* Tasks.  A task is at the await it has to pass next: pc names it.        *)
(***************************************************************************)
NoUrl == [scheme |-> "", host |-> <<>>, port |-> <<>>, path |-> <<>>,
          query |-> None, fragment |-> None]

\* from is "command" for the task of handle_command and "link" for a task
\* spawned by parser_worker
Task(pc, url, prev, w, idx, from) ==
    [pc |-> pc, url |-> url, prev |-> prev, w |-> w, idx |-> idx, from |-> from]

One(t) == SetToBag({t})

NumTasks == BagCardinality(tasks)

Returned(op, from, result) == [op |-> op, from |-> from, result |-> result]

\* tokio RwLock: read() needs no writer, write() needs the lock free
CanRead(l) == ~locks[l].writer

CanWrite(l) == ~locks[l].writer /\ locks[l].readers = 0

\* mutant: a domain without a record counts as crawling
IsCrawling_AbsentIsOn(url) ==
    LET base_url == strip_url_to_domain(url) IN
    IF base_url \in DOMAIN base_urls THEN base_urls[base_url].crawling ELSE TRUE

\* mutant: a domain counts as crawling as soon as it has a record
IsCrawling_IgnoresFlag(url) ==
    LET base_url == strip_url_to_domain(url) IN base_url \in DOMAIN base_urls

\* Crawler::base_url_is_crawling, the value read under the read lock
\* (crawler.rs:84-92)
IsCrawling(url) ==
    LET base_url == strip_url_to_domain(url) IN
    IF base_url \in DOMAIN base_urls THEN base_urls[base_url].crawling ELSE FALSE

\* what a step that returns from no call and prints nothing leaves behind
NoReturn == [op |-> "none", from |-> "none", result |-> "none"]

Quiet == printed' = {} /\ last' = NoReturn

\* the registry guards a task holds at the await it is at: base_urls by
\* base_url_start_crawling (crawler.rs:96-106) and by handle_command_list
\* (crawler.rs:177-187), url_workers by create_worker (crawler.rs:66-76)
HeldBy(t) ==
    CASE t.pc \in {"start_register", "list_tree"} -> {"base_urls"}
      [] t.pc = "create_register" -> {"url_workers"}
      [] OTHER -> {}

\* what the task awaits: a registry lock, the lock of its job, the fetch, or
\* nothing (a task that has been spawned and has not run)
WaitsFor(t) ==
    CASE t.pc \in {"start_flag", "stop_flag", "list_base", "job_gate"} -> "base_urls"
      [] t.pc \in {"job_has", "create_new", "job_get"} -> "url_workers"
      [] t.pc \in {"start_register", "list_tree", "create_register"} -> "url_parents"
      [] t.pc = "create_link" ->
            IF ~t.prev.some /\ t.url = strip_url_to_domain(t.url) THEN "none" ELSE "url_parents"
      [] t.pc = "job_lock" -> "job"
      [] t.pc = "fetching" -> "fetch"
      [] OTHER -> "none"

Registries == {"base_urls", "url_workers", "url_parents"}

\* a map with key k set to v
Put(map, k, v) == [x \in DOMAIN map \cup {k} |-> IF x = k THEN v ELSE map[x]]

(***************************************************************************)
(* crawler.rs: the commands.                                               *)
(***************************************************************************)
\* handle_command(Start(raw)) up to its first await (crawler.rs:127-130)
CmdStart(raw) ==
    /\ ncmds' = ncmds + 1
    /\ LET p == UrlParse(raw) IN
       IF p.ok
       THEN /\ NumTasks < MaxTasks
            /\ tasks' = tasks (+) One(Task("start_flag", p.url, None, 0, 0, "command"))
            /\ last' = NoReturn
       ELSE /\ last' = Returned("Start", "command", "InvalidUrl")
            /\ UNCHANGED tasks
    /\ UNCHANGED <<pvars, base_urls, url_workers, workers, url_parents, locks, now>>
    /\ printed' = {}

\* base_url_start_crawling: base_urls.write() acquired, the record inserted
\* and switched on (crawler.rs:95-100); the guard stays held
StartFlag(t) ==
    /\ t.pc = "start_flag"
    /\ CanWrite("base_urls")
    /\ LET base_url == strip_url_to_domain(t.url) IN
       base_urls' = Put(base_urls, base_url, [crawling |-> TRUE])
    /\ locks' = [locks EXCEPT !["base_urls"].writer = TRUE]
    /\ tasks' = (tasks (-) One(t)) (+) One([t EXCEPT !.pc = "start_register"])
    /\ UNCHANGED <<pvars, url_workers, workers, url_parents, now, ncmds>>
    /\ Quiet

\* mutant: the root is not registered in url_parents
StartRegister_SkipsRoot(t) ==
    /\ t.pc = "start_register"
    /\ CanWrite("url_parents")
    /\ locks' = [locks EXCEPT !["base_urls"].writer = FALSE]
    /\ tasks' = (tasks (-) One(t)) (+)
                One([t EXCEPT !.pc = "job_gate", !.url = strip_url_to_domain_and_path(t.url)])
    /\ UNCHANGED <<pvars, base_urls, url_workers, workers, url_parents, now, ncmds>>
    /\ Quiet

\* base_url_start_crawling: url_parents.write() acquired while base_urls is
\* held, the root registered, both guards dropped (crawler.rs:102-107); then
\* start_job(None, url) normalizes its url (crawler.rs:133, 139)
StartRegister(t) ==
    /\ t.pc = "start_register"
    /\ CanWrite("url_parents")
    /\ LET base_url == strip_url_to_domain(t.url) IN
       url_parents' = IF base_url \in DOMAIN url_parents THEN url_parents
                      ELSE Put(url_parents, base_url, {})
    /\ locks' = [locks EXCEPT !["base_urls"].writer = FALSE]
    /\ tasks' = (tasks (-) One(t)) (+)
                One([t EXCEPT !.pc = "job_gate", !.url = strip_url_to_domain_and_path(t.url)])
    /\ UNCHANGED <<pvars, base_urls, url_workers, workers, now, ncmds>>
    /\ Quiet

\* handle_command(Stop(raw)) up to its first await (crawler.rs:162-166)
CmdStop(raw) ==
    /\ ncmds' = ncmds + 1
    /\ LET p == UrlParse(raw) IN
       IF p.ok
       THEN /\ NumTasks < MaxTasks
            /\ tasks' = tasks (+) One(Task("stop_flag", strip_url_to_domain(p.url), None, 0, 0, "command"))
            /\ last' = NoReturn
       ELSE /\ last' = Returned("Stop", "command", "InvalidUrl")
            /\ UNCHANGED tasks
    /\ UNCHANGED <<pvars, base_urls, url_workers, workers, url_parents, locks, now>>
    /\ printed' = {}

\* mutant: Stop inserts a record, switched off, for a domain that has none
StopFlag_CreatesRecord(t) ==
    /\ t.pc = "stop_flag"
    /\ CanWrite("base_urls")
    /\ base_urls' = Put(base_urls, strip_url_to_domain(t.url), [crawling |-> FALSE])
    /\ tasks' = tasks (-) One(t)
    /\ last' = Returned("Stop", "command", "Ok")
    /\ UNCHANGED <<pvars, url_workers, workers, url_parents, locks, now, ncmds>>
    /\ printed' = {}

\* mutant: Stop removes the record of the domain
StopFlag_RemovesRecord(t) ==
    /\ t.pc = "stop_flag"
    /\ CanWrite("base_urls")
    /\ base_urls' = [x \in DOMAIN base_urls \ {strip_url_to_domain(t.url)} |-> base_urls[x]]
    /\ tasks' = tasks (-) One(t)
    /\ last' = Returned("Stop", "command", "Ok")
    /\ UNCHANGED <<pvars, url_workers, workers, url_parents, locks, now, ncmds>>
    /\ printed' = {}

\* mutant: Stop returns and leaves the flag of the domain as it is
StopFlag_LeavesFlag(t) ==
    /\ t.pc = "stop_flag"
    /\ CanWrite("base_urls")
    /\ tasks' = tasks (-) One(t)
    /\ last' = Returned("Stop", "command", "Ok")
    /\ UNCHANGED <<pvars, base_urls, url_workers, workers, url_parents, locks, now, ncmds>>
    /\ printed' = {}

\* base_url_stop_crawling (crawler.rs:109-117) and the return of Stop
StopFlag(t) ==
    /\ t.pc = "stop_flag"
    /\ CanWrite("base_urls")
    /\ LET base_url == strip_url_to_domain(t.url) IN
       base_urls' = IF base_url \in DOMAIN base_urls
                    THEN [base_urls EXCEPT ![base_url].crawling = FALSE]
                    ELSE base_urls
    /\ tasks' = tasks (-) One(t)
    /\ last' = Returned("Stop", "command", "Ok")
    /\ UNCHANGED <<pvars, url_workers, workers, url_parents, locks, now, ncmds>>
    /\ printed' = {}

\* handle_command(List) up to its first await (crawler.rs:173-177)
CmdList ==
    /\ ncmds' = ncmds + 1
    /\ NumTasks < MaxTasks
    /\ tasks' = tasks (+) One(Task("list_base", NoUrl, None, 0, 0, "command"))
    /\ UNCHANGED <<pvars, base_urls, url_workers, workers, url_parents, locks, now>>
    /\ Quiet

\* handle_command_list: base_urls.read() acquired and kept (crawler.rs:177-180)
ListBase(t) ==
    /\ t.pc = "list_base"
    /\ CanRead("base_urls")
    /\ locks' = [locks EXCEPT !["base_urls"].readers = @ + 1]
    /\ tasks' = (tasks (-) One(t)) (+) One([t EXCEPT !.pc = "list_tree"])
    /\ UNCHANGED <<pvars, base_urls, url_workers, workers, url_parents, now, ncmds>>
    /\ Quiet

\* the Urls print_children visits from the set children
RECURSIVE Visited(_)
Visited(S) ==
    LET more == S \cup UNION {url_parents[u] : u \in S \cap DOMAIN url_parents} IN
    IF more = S THEN S ELSE Visited(more)

\* print_children panics when a Url it visits is no key of url_parents
\* (crawler.rs:219-229)
PrintChildrenPanics(children) == ~(Visited(children) \subseteq DOMAIN url_parents)

\* print_children does not return when a Url it visits is among its own
\* descendants: the recursion (crawler.rs:231-244) goes round the cycle
\* until the stack is exhausted
PrintChildrenRecursesForever(children) ==
    \E u \in Visited(children) \cap DOMAIN url_parents : u \in Visited(url_parents[u])

\* how print_children ends: which of a missing key and a cycle it meets
\* first depends on the order in which the HashSets are iterated
PrintChildrenOutcomes(children) ==
    (IF PrintChildrenPanics(children) THEN {"panic"} ELSE {})
        \cup (IF PrintChildrenRecursesForever(children) THEN {"stack overflow"} ELSE {})
        \cup (IF PrintChildrenPanics(children) \/ PrintChildrenRecursesForever(children)
              THEN {} ELSE {"Ok"})

\* handle_command_list: url_parents.read() acquired while base_urls is held,
\* the tree printed, both guards dropped (crawler.rs:182-188)
ListTree(t) ==
    /\ t.pc = "list_tree"
    /\ CanRead("url_parents")
    /\ locks' = [locks EXCEPT !["base_urls"].readers = @ - 1]
    /\ tasks' = tasks (-) One(t)
    /\ \E outcome \in PrintChildrenOutcomes(DOMAIN base_urls) :
          last' = Returned("List", "command", outcome)
    /\ UNCHANGED <<pvars, base_urls, url_workers, workers, url_parents, now, ncmds>>
    /\ printed' = {}

(***************************************************************************)
(* crawler.rs: start_job and create_worker; url_worker.rs: start and       *)
(* parser_worker.                                                          *)
(***************************************************************************)
\* the name under which the result of start_job is returned: the Start
\* command returns it (crawler.rs:133), a spawned task reports it
\* (url_worker.rs:70-76)
OpOf(t) == IF t.from = "command" THEN "Start" ELSE "StartJob"

\* a spawned start_job that fails prints its error (url_worker.rs:74-75)
PrintedBy(t, err) == IF t.from = "link" THEN {err} ELSE {}

\* start_job: base_url_is_crawling under base_urls.read() (crawler.rs:139-148)
JobGate(t) ==
    /\ t.pc = "job_gate"
    /\ CanRead("base_urls")
    /\ IF IsCrawling(t.url)
       THEN /\ tasks' = (tasks (-) One(t)) (+) One([t EXCEPT !.pc = "job_has"])
            /\ Quiet
       ELSE /\ tasks' = tasks (-) One(t)
            /\ printed' = {"BaseUrlHasStoppedCrawling"}
            /\ last' = Returned(OpOf(t), t.from, "Ok")
    /\ UNCHANGED <<pvars, base_urls, url_workers, workers, url_parents, locks, now, ncmds>>

\* start_job: has_worker under url_workers.read() (crawler.rs:35-38, 151)
JobHas(t) ==
    /\ t.pc = "job_has"
    /\ CanRead("url_workers")
    /\ tasks' = (tasks (-) One(t)) (+)
                One([t EXCEPT !.pc = IF t.url \in DOMAIN url_workers THEN "job_get" ELSE "create_link"])
    /\ UNCHANGED <<pvars, base_urls, url_workers, workers, url_parents, locks, now, ncmds>>
    /\ Quiet

\* the key of url_parents under which create_worker records url
\* (crawler.rs:44-63): the parent, or the domain-only root
ParentKey(t) == IF t.prev.some THEN t.prev.val ELSE strip_url_to_domain(t.url)

\* mutant: the guard of url_parents.write() outlives the block and is held
\* while url_workers.write() is awaited
CreateLink_KeepsGuard(t) ==
    /\ t.pc = "create_link"
    /\ IF ~t.prev.some /\ t.url = strip_url_to_domain(t.url)
       THEN /\ tasks' = (tasks (-) One(t)) (+) One([t EXCEPT !.pc = "create_new"])
            /\ UNCHANGED <<url_parents, locks>>
            /\ Quiet
       ELSE /\ CanWrite("url_parents")
            /\ IF ParentKey(t) \in DOMAIN url_parents
               THEN /\ url_parents' = [url_parents EXCEPT ![ParentKey(t)] = @ \cup {t.url}]
                    /\ locks' = [locks EXCEPT !["url_parents"].writer = TRUE]
                    /\ tasks' = (tasks (-) One(t)) (+) One([t EXCEPT !.pc = "create_new"])
                    /\ Quiet
               ELSE LET err == IF t.prev.some THEN "ParentUrlWorkerNotFound" ELSE "BaseUrlNotFound" IN
                    /\ tasks' = tasks (-) One(t)
                    /\ printed' = PrintedBy(t, err)
                    /\ last' = Returned(OpOf(t), t.from, err)
                    /\ UNCHANGED <<url_parents, locks>>
    /\ UNCHANGED <<pvars, base_urls, url_workers, workers, now, ncmds>>

\* mutant: the parent is looked up but the url is not added to its children
CreateLink_SkipsInsert(t) ==
    /\ t.pc = "create_link"
    /\ IF ~t.prev.some /\ t.url = strip_url_to_domain(t.url)
       THEN /\ tasks' = (tasks (-) One(t)) (+) One([t EXCEPT !.pc = "create_new"])
            /\ Quiet
       ELSE /\ CanWrite("url_parents")
            /\ IF ParentKey(t) \in DOMAIN url_parents
               THEN /\ tasks' = (tasks (-) One(t)) (+) One([t EXCEPT !.pc = "create_new"])
                    /\ Quiet
               ELSE LET err == IF t.prev.some THEN "ParentUrlWorkerNotFound" ELSE "BaseUrlNotFound" IN
                    /\ tasks' = tasks (-) One(t)
                    /\ printed' = PrintedBy(t, err)
                    /\ last' = Returned(OpOf(t), t.from, err)
    /\ UNCHANGED <<pvars, base_urls, url_workers, workers, url_parents, locks, now, ncmds>>

\* create_worker: "Add to children" (crawler.rs:43-63); url_parents.write()
\* is taken and dropped inside the block
CreateLink(t) ==
    /\ t.pc = "create_link"
    /\ IF ~t.prev.some /\ t.url = strip_url_to_domain(t.url)
       THEN /\ tasks' = (tasks (-) One(t)) (+) One([t EXCEPT !.pc = "create_new"])
            /\ UNCHANGED url_parents
            /\ Quiet
       ELSE /\ CanWrite("url_parents")
            /\ IF ParentKey(t) \in DOMAIN url_parents
               THEN /\ url_parents' = [url_parents EXCEPT ![ParentKey(t)] = @ \cup {t.url}]
                    /\ tasks' = (tasks (-) One(t)) (+) One([t EXCEPT !.pc = "create_new"])
                    /\ Quiet
               ELSE LET err == IF t.prev.some THEN "ParentUrlWorkerNotFound" ELSE "BaseUrlNotFound" IN
                    /\ tasks' = tasks (-) One(t)
                    /\ printed' = PrintedBy(t, err)
                    /\ last' = Returned(OpOf(t), t.from, err)
                    /\ UNCHANGED url_parents
    /\ UNCHANGED <<pvars, base_urls, url_workers, workers, locks, now, ncmds>>

\* create_worker: "Create new worker" (crawler.rs:65-68): url_workers.write()
\* acquired, a new UrlWorker inserted under url; the guard stays held
CreateNew(t) ==
    /\ t.pc = "create_new"
    /\ CanWrite("url_workers")
    /\ Len(workers) < MaxWorkers
    /\ workers' = Append(workers, UrlWorker_new(t.url))
    /\ url_workers' = Put(url_workers, t.url, Len(workers) + 1)
    /\ locks' = [locks EXCEPT !["url_workers"].writer = TRUE]
    /\ tasks' = (tasks (-) One(t)) (+) One([t EXCEPT !.pc = "create_register"])
    /\ UNCHANGED <<pvars, base_urls, url_parents, now, ncmds>>
    /\ Quiet

\* mutant: the url is not made a key of url_parents
CreateRegister_SkipsKey(t) ==
    /\ t.pc = "create_register"
    /\ CanWrite("url_parents")
    /\ locks' = [locks EXCEPT !["url_workers"].writer = FALSE]
    /\ tasks' = (tasks (-) One(t)) (+) One([t EXCEPT !.pc = "job_get"])
    /\ UNCHANGED <<pvars, base_urls, url_workers, workers, url_parents, now, ncmds>>
    /\ Quiet

\* create_worker: "Register the parent" (crawler.rs:70-76): url_parents.write()
\* acquired while url_workers is held, url made a key, both guards dropped
CreateRegister(t) ==
    /\ t.pc = "create_register"
    /\ CanWrite("url_parents")
    /\ url_parents' = IF t.url \in DOMAIN url_parents THEN url_parents
                      ELSE Put(url_parents, t.url, {})
    /\ locks' = [locks EXCEPT !["url_workers"].writer = FALSE]
    /\ tasks' = (tasks (-) One(t)) (+) One([t EXCEPT !.pc = "job_get"])
    /\ UNCHANGED <<pvars, base_urls, url_workers, workers, now, ncmds>>
    /\ Quiet

\* mutant: the guard of url_workers.read() is kept while the job is started
JobGet_KeepsGuard(t) ==
    /\ t.pc = "job_get"
    /\ CanRead("url_workers")
    /\ t.url \in DOMAIN url_workers
    /\ tasks' = (tasks (-) One(t)) (+) One([t EXCEPT !.pc = "job_lock", !.w = url_workers[t.url]])
    /\ locks' = [locks EXCEPT !["url_workers"].readers = 1]
    /\ last' = NoReturn
    /\ UNCHANGED <<pvars, base_urls, url_workers, workers, url_parents, now, ncmds>>
    /\ printed' = {}

\* start_job: get_worker(..).unwrap() under url_workers.read() (crawler.rs:79-82, 156)
JobGet(t) ==
    /\ t.pc = "job_get"
    /\ CanRead("url_workers")
    /\ IF t.url \in DOMAIN url_workers
       THEN /\ tasks' = (tasks (-) One(t)) (+) One([t EXCEPT !.pc = "job_lock", !.w = url_workers[t.url]])
            /\ last' = NoReturn
       ELSE /\ tasks' = tasks (-) One(t)
            /\ last' = Returned(OpOf(t), t.from, "panic")
    /\ UNCHANGED <<pvars, base_urls, url_workers, workers, url_parents, locks, now, ncmds>>
    /\ printed' = {}

\* start_job: job.write() acquired, then UrlWorker::start up to the fetch
\* (crawler.rs:157, url_worker.rs:32-44): a fresh job returns Ok, any other
\* calls reqwest::get and keeps the job locked
JobStart(t) ==
    /\ t.pc = "job_lock"
    /\ ~workers[t.w].locked
    /\ IF SkipsFetch(workers[t.w].last_access_timestamp, now)
       THEN /\ tasks' = tasks (-) One(t)
            /\ last' = Returned(OpOf(t), t.from, "Ok")
            /\ UNCHANGED workers
       ELSE /\ workers' = [workers EXCEPT ![t.w].locked = TRUE]
            /\ tasks' = (tasks (-) One(t)) (+) One([t EXCEPT !.pc = "fetching"])
            /\ last' = NoReturn
    /\ UNCHANGED <<pvars, base_urls, url_workers, url_parents, locks, now, ncmds>>
    /\ printed' = {}

\* mutant: the partition indices run from 1 to PARSER_WORKER_COUNT
ParserWorkers_FromOne(url) ==
    {Task("parse", url, None, 0, worker_index, "worker") :
        worker_index \in 1..PARSER_WORKER_COUNT}

\* the parser workers UrlWorker::start spawns (url_worker.rs:51-58)
ParserWorkers(url) ==
    {Task("parse", url, None, 0, worker_index, "worker") :
        worker_index \in 0..(PARSER_WORKER_COUNT - 1)}

\* mutant: the guard of the job is not dropped when start returns
FetchOk_KeepsLocked(t) ==
    /\ t.pc = "fetching"
    /\ NumTasks - 1 + PARSER_WORKER_COUNT <= MaxTasks
    /\ workers' = [workers EXCEPT ![t.w].last_access_timestamp = Some(now)]
    /\ tasks' = (tasks (-) One(t)) (+) SetToBag(ParserWorkers(workers[t.w].url))
    /\ last' = Returned(OpOf(t), t.from, "Ok")
    /\ UNCHANGED <<pvars, base_urls, url_workers, url_parents, locks, now, ncmds>>
    /\ printed' = {}

\* UrlWorker::start after a fetch that succeeded (url_worker.rs:44-60): the
\* timestamp stored, the parser workers spawned, Ok returned, the job unlocked
FetchOk(t) ==
    /\ t.pc = "fetching"
    /\ NumTasks - 1 + PARSER_WORKER_COUNT <= MaxTasks
    /\ workers' = [workers EXCEPT ![t.w].last_access_timestamp = Some(now), ![t.w].locked = FALSE]
    /\ tasks' = (tasks (-) One(t)) (+) SetToBag(ParserWorkers(workers[t.w].url))
    /\ last' = Returned(OpOf(t), t.from, "Ok")
    /\ UNCHANGED <<pvars, base_urls, url_workers, url_parents, locks, now, ncmds>>
    /\ printed' = {}

\* mutant: the timestamp is stored although the fetch failed
FetchFail_StampsTime(t) ==
    /\ t.pc = "fetching"
    /\ workers' = [workers EXCEPT ![t.w].last_access_timestamp = Some(now), ![t.w].locked = FALSE]
    /\ tasks' = tasks (-) One(t)
    /\ printed' = PrintedBy(t, "FetchFailed")
    /\ last' = Returned(OpOf(t), t.from, "FetchFailed")
    /\ UNCHANGED <<pvars, base_urls, url_workers, url_parents, locks, now, ncmds>>

\* UrlWorker::start after a fetch that failed (url_worker.rs:44): the error
\* returned by `?`, the job unlocked
FetchFail(t) ==
    /\ t.pc = "fetching"
    /\ workers' = [workers EXCEPT ![t.w].locked = FALSE]
    /\ tasks' = tasks (-) One(t)
    /\ printed' = PrintedBy(t, "FetchFailed")
    /\ last' = Returned(OpOf(t), t.from, "FetchFailed")
    /\ UNCHANGED <<pvars, base_urls, url_workers, url_parents, locks, now, ncmds>>

\* the outcomes of parser_worker_handle_link for the hrefs that parser worker
\* worker_index finds in the page of url (url_worker.rs:64-65)
LinksOf(url, worker_index) ==
    LET items == find_anchors(SitePage(url), worker_index, PARSER_WORKER_COUNT).items IN
    [k \in 1..Len(items) |-> parser_worker_handle_link(url, items[k].href)]

\* LinksOf for the pages of the site, computed once
SiteUrls ==
    {[scheme |-> "http", host |-> HostD, port |-> <<>>, path |-> p, query |-> None, fragment |-> None] :
        p \in {<<"/">>, <<"/", "a">>, <<"/", "b">>}}

SiteLinks ==
    [url \in SiteUrls |-> [worker_index \in 0..(PARSER_WORKER_COUNT - 1) |-> LinksOf(url, worker_index)]]

LinkResults(t) == IF t.url \in SiteUrls THEN SiteLinks[t.url][t.idx] ELSE LinksOf(t.url, t.idx)

\* the start_job tasks a parser worker spawns (url_worker.rs:66-77)
RECURSIVE SpawnedJobs(_, _)
SpawnedJobs(previous_url, results) ==
    IF results = <<>> THEN EmptyBag
    ELSE LET r == Head(results)
             rest == SpawnedJobs(previous_url, Tail(results))
         IN IF r.ok
            THEN rest (+) One(Task("job_gate", strip_url_to_domain_and_path(r.url),
                                   Some(previous_url), 0, 0, "link"))
            ELSE rest

\* UrlWorker::parser_worker (url_worker.rs:63-83): it has no await
ParserWorker(t) ==
    /\ t.pc = "parse"
    /\ LET results == LinkResults(t)
           spawned == SpawnedJobs(t.url, results)
       IN /\ NumTasks - 1 + BagCardinality(spawned) <= MaxTasks
          /\ tasks' = (tasks (-) One(t)) (+) spawned
          /\ printed' =
                {results[k].err : k \in {j \in 1..Len(results) :
                                          ~results[j].ok /\ should_display_error(results[j].err)}}
    /\ UNCHANGED <<pvars, base_urls, url_workers, workers, url_parents, locks, now, ncmds>>
    /\ last' = NoReturn

\* time passes
Tick ==
    /\ now < MaxTime
    /\ now' = now + 1
    /\ UNCHANGED <<pvars, base_urls, url_workers, workers, url_parents, locks, tasks, ncmds>>
    /\ Quiet

(***************************************************************************)
(* Spec: the orchestrator and its tasks.                                   *)
(***************************************************************************)
\* Crawler::new (crawler.rs:27-33), no task, no command yet
CrawlerInit ==
    /\ base_urls = << >>
    /\ url_workers = << >>
    /\ workers = << >>
    /\ url_parents = << >>
    /\ locks = [l \in {"base_urls", "url_workers", "url_parents"} |-> [writer |-> FALSE, readers |-> 0]]
    /\ tasks = EmptyBag
    /\ now = 0
    /\ printed = {}
    /\ last = NoReturn
    /\ ncmds = 0

\* no function of NormSpec or RenderSpec is applied
NoCall == [op |-> "none"]

ParserIdle ==
    /\ iter = AnchorHrefIterator_new(<<>>, 0, 1)
    /\ hrefs = <<>>
    /\ pstate = "idle"
    /\ call = NoCall

Init == CrawlerInit /\ ParserIdle

\* a task passes the await it is at: the tasks of Start, of Stop, of List,
\* and the jobs and parser workers
StartSteps ==
    \/ \E t \in BagToSet(tasks) : StartFlag(t)
    \/ \E t \in BagToSet(tasks) : StartRegister(t)

StopSteps == \E t \in BagToSet(tasks) : StopFlag(t)

ListSteps ==
    \/ \E t \in BagToSet(tasks) : ListBase(t)
    \/ \E t \in BagToSet(tasks) : ListTree(t)

JobSteps ==
    \/ \E t \in BagToSet(tasks) : JobGate(t)
    \/ \E t \in BagToSet(tasks) : JobHas(t)
    \/ \E t \in BagToSet(tasks) : CreateLink(t)
    \/ \E t \in BagToSet(tasks) : CreateNew(t)
    \/ \E t \in BagToSet(tasks) : CreateRegister(t)
    \/ \E t \in BagToSet(tasks) : JobGet(t)
    \/ \E t \in BagToSet(tasks) : JobStart(t)
    \/ \E t \in BagToSet(tasks) : FetchOk(t)
    \/ \E t \in BagToSet(tasks) : FetchFail(t)
    \/ \E t \in BagToSet(tasks) : ParserWorker(t)

\* a command is dispatched onto a task of its own, whatever the commands
\* before it are doing
Dispatch ==
    \/ ncmds < MaxCmds /\ \E raw \in StartRaws : CmdStart(raw)
    \/ ncmds < MaxCmds /\ \E raw \in StopRaws : CmdStop(raw)
    \/ ncmds < MaxCmds /\ CmdList

\* Spec: any commands at any time, within the stale window of every job
Next ==
    \/ Dispatch
    \/ StartSteps
    \/ StopSteps
    \/ ListSteps
    \/ JobSteps

Spec == Init /\ [][Next]_vars

\* FairSpec: Spec where the runtime runs a task that can pass its await and
\* a fetch returns
FairSpec == Spec /\ WF_vars(StartSteps \/ StopSteps \/ ListSteps \/ JobSteps)

\* the commands of a script, each sent when the one before it has returned
NumCmdTasks ==
    BagCardinality([t \in {x \in BagToSet(tasks) : x.from = "command"} |-> tasks[t]])

ScriptedStart(script) ==
    /\ ncmds < Len(script)
    /\ NumCmdTasks = 0
    /\ script[ncmds + 1].cmd = "Start"
    /\ CmdStart(script[ncmds + 1].raw)

ScriptedStop(script) ==
    /\ ncmds < Len(script)
    /\ NumCmdTasks = 0
    /\ script[ncmds + 1].cmd = "Stop"
    /\ CmdStop(script[ncmds + 1].raw)

ScriptedList(script) ==
    /\ ncmds < Len(script)
    /\ NumCmdTasks = 0
    /\ script[ncmds + 1].cmd = "List"
    /\ CmdList

\* GateSpec: Start("http://d/a"), Stop("http://d"), Start("http://d") in
\* sequence, with the link discovery they cause
GateScript ==
    <<[cmd |-> "Start", raw |-> RawA], [cmd |-> "Stop", raw |-> RawRoot],
      [cmd |-> "Start", raw |-> RawRoot]>>

GateNext ==
    \/ ScriptedStart(GateScript)
    \/ ScriptedStop(GateScript)
    \/ StartSteps
    \/ StopSteps
    \/ JobSteps

GateSpec == Init /\ [][GateNext]_vars

\* TimedSpec: Start("http://d/a") and the link discovery it causes, while
\* the clock runs
TimedScript == <<[cmd |-> "Start", raw |-> RawA]>>

TimedNext ==
    \/ ScriptedStart(TimedScript)
    \/ Tick
    \/ StartSteps
    \/ JobSteps

TimedSpec == Init /\ [][TimedNext]_vars

\* PortSpec: Start("http://d:8") and then Start("http://d/a"), with the link
\* discovery they cause
PortScript == <<[cmd |-> "Start", raw |-> RawPort], [cmd |-> "Start", raw |-> RawA]>>

PortNext ==
    \/ ScriptedStart(PortScript)
    \/ StartSteps
    \/ JobSteps

PortSpec == Init /\ [][PortNext]_vars

\* StopSpec: Start("http://d/a"), then Stop("http://d") while the link
\* discovery of the Start is in flight, and no Start after it.  The runtime
\* runs a task that can pass its await; a fetch returns.
StopScript == <<[cmd |-> "Start", raw |-> RawA], [cmd |-> "Stop", raw |-> RawRoot]>>

StopNext ==
    \/ ScriptedStart(StopScript)
    \/ ScriptedStop(StopScript)
    \/ StartSteps
    \/ StopSteps
    \/ JobSteps

StopSpec == Init /\ [][StopNext]_vars /\ WF_vars(StartSteps \/ StopSteps \/ JobSteps)

\* HomeSpec: Start("http://h/x") on the second site, whose page /x links to
\* the home page, and then List
HomeScript == <<[cmd |-> "Start", raw |-> RawX], [cmd |-> "List", raw |-> <<>>]>>

HomeNext ==
    \/ ScriptedStart(HomeScript)
    \/ ScriptedList(HomeScript)
    \/ StartSteps
    \/ ListSteps
    \/ JobSteps

HomeSpec == Init /\ [][HomeNext]_vars

\* CrawlSpec: Start("http://d/a") on the site, whose pages /a and /b link to
\* each other and /b to itself, within the stale window of every job.  The
\* runtime runs a task that can pass its await; a fetch returns.
CrawlScript == <<[cmd |-> "Start", raw |-> RawA]>>

CrawlNext ==
    \/ ScriptedStart(CrawlScript)
    \/ StartSteps
    \/ JobSteps

CrawlSpec == Init /\ [][CrawlNext]_vars /\ WF_vars(StartSteps \/ JobSteps)


(***************************************************************************)
(* NormSpec: strip_url_to_domain_and_path and strip_url_to_domain applied  *)
(* to a parsed URL, and applied again to the result.                       *)
(***************************************************************************)
\* the URL strings normalized: http://d, with or without a port, a path of
\* slashes and letters, a query and a fragment
NormPaths == {p \in SeqsUpTo({"/", "a"}, MaxPath) : p = <<>> \/ Head(p) = "/"}

NormRaws ==
    {HttpPrefix \o <<"d">> \o port \o p \o q \o f :
        port \in {<<>>, <<":", "8">>}, p \in NormPaths,
        q \in {<<>>, <<"?", "q">>}, f \in {<<>>, <<"#", "f">>}}

NormInit ==
    /\ \E raw \in NormRaws : call = [op |-> "none", arg |-> UrlParse(raw).url]
    /\ iter = AnchorHrefIterator_new(<<>>, 0, 1)
    /\ hrefs = <<>>
    /\ pstate = "idle"
    /\ CrawlerInit

NormalizeDomainPath ==
    /\ call.op = "none"
    /\ call' = [op |-> "strip_url_to_domain_and_path", arg |-> call.arg,
                once |-> strip_url_to_domain_and_path(call.arg),
                twice |-> strip_url_to_domain_and_path(strip_url_to_domain_and_path(call.arg))]
    /\ UNCHANGED <<iter, hrefs, pstate, cvars>>

NormalizeDomain ==
    /\ call.op = "none"
    /\ call' = [op |-> "strip_url_to_domain", arg |-> call.arg,
                once |-> strip_url_to_domain(call.arg),
                twice |-> strip_url_to_domain(strip_url_to_domain(call.arg))]
    /\ UNCHANGED <<iter, hrefs, pstate, cvars>>

NormNext == NormalizeDomainPath \/ NormalizeDomain

NormSpec == NormInit /\ [][NormNext]_vars

\* C15: normalizing a URL twice, to the domain+path form or to the
\* domain-only form, gives what normalizing it once gives, for paths that
\* end in one slash or in several.
C15_NormalizationIdempotent ==
    call.op \in {"strip_url_to_domain_and_path", "strip_url_to_domain"} => call.twice = call.once

(***************************************************************************)
(* RenderSpec: print_children applied to a tree, as handle_command_list    *)
(* applies it to url_parents and the keys of base_urls.  The result is the *)
(* sequence of the lines written, one per info!; a HashSet is iterated in  *)
(* any order.                                                              *)
(***************************************************************************)
\* Url::as_str
UrlStr(u) ==
    HttpPrefix \o u.host \o (IF u.port = <<>> THEN <<>> ELSE <<":">> \o u.port) \o u.path
        \o (IF u.query.some THEN <<"?">> \o u.query.val ELSE <<>>)
        \o (IF u.fragment.some THEN <<"#">> \o u.fragment.val ELSE <<>>)

\* indentation: a string of n spaces
Spaces(n) == [k \in 1..n |-> " "]

\* [&str]::join(" ")
RECURSIVE JoinSpace(_)
JoinSpace(strs) ==
    IF strs = <<>> THEN <<>>
    ELSE IF Len(strs) = 1 THEN strs[1]
    ELSE strs[1] \o <<" ">> \o JoinSpace(Tail(strs))

\* the orders in which the elements of a HashSet can be iterated
Orders(S) == {q \in [1..Cardinality(S) -> S] : \A x \in S : \E k \in DOMAIN q : q[k] = x}

\* url.as_str() when the indentation is empty, url.path() otherwise
\* (crawler.rs:232-238, 246-252)
Shown(url, indentation) == IF indentation = 0 THEN UrlStr(url) ELSE url.path

RECURSIVE print_children(_, _, _)
RECURSIVE PrintChilded(_, _, _)

\* the loop over childed_urls (crawler.rs:231-244): the lines it can write
PrintChilded(parents, indentation, childed_urls) ==
    IF childed_urls = <<>> THEN {<<>>}
    ELSE {<<Spaces(indentation) \o Shown(Head(childed_urls), indentation)>> \o below \o rest :
            below \in print_children(parents, indentation + 1, parents[Head(childed_urls)]),
            rest \in PrintChilded(parents, indentation, Tail(childed_urls))}

\* mutant: the line of the childless urls is written before the childed ones
print_children_ChildlessFirst(parents, indentation, children) ==
    UNION {
        LET IsChilded(u) == parents[u] # {}
            IsChildless(u) == parents[u] = {}
            childless_urls == SelectSeq(order, IsChildless)
            line == Spaces(indentation) \o
                      JoinSpace([k \in 1..Len(childless_urls) |-> Shown(childless_urls[k], indentation)])
        IN {<<line>> \o above : above \in PrintChilded(parents, indentation, SelectSeq(order, IsChilded))}
        : order \in Orders(children)}

\* print_children (crawler.rs:211-255) on children that are keys of parents:
\* the sequences of lines it can write
print_children(parents, indentation, children) ==
    UNION {
        LET IsChilded(u) == parents[u] # {}
            IsChildless(u) == parents[u] = {}
            childless_urls == SelectSeq(order, IsChildless)
            line == Spaces(indentation) \o
                      JoinSpace([k \in 1..Len(childless_urls) |-> Shown(childless_urls[k], indentation)])
        IN {above \o <<line>> : above \in PrintChilded(parents, indentation, SelectSeq(order, IsChilded))}
        : order \in Orders(children)}

\* the Urls of the trees
SiteUrl(host, path) ==
    [scheme |-> "http", host |-> host, port |-> <<>>, path |-> path,
     query |-> None, fragment |-> None]

NodeR == SiteUrl(HostD, <<"/">>)
NodeE == SiteUrl(<<"e">>, <<"/">>)
NodeA == SiteUrl(HostD, <<"/", "a">>)
NodeB == SiteUrl(HostD, <<"/", "b">>)
NodeC == SiteUrl(HostD, <<"/", "c">>)
NodeAC == SiteUrl(HostD, <<"/", "a", "/", "c">>)
NodeAD == SiteUrl(HostD, <<"/", "a", "/", "d">>)
NodeBC == SiteUrl(HostD, <<"/", "b", "/", "c">>)

\* the tree in which the root has the children kR, /a the children kA and
\* /b the children kB
TreeOf(kR, kA, kB, roots) ==
    LET kids(u) == IF u = NodeR THEN kR
                   ELSE IF u = NodeA THEN kA
                   ELSE IF u = NodeB THEN kB
                   ELSE {}
        keys == roots \cup kR \cup (IF NodeA \in kR THEN kA ELSE {})
                      \cup (IF NodeB \in kR THEN kB ELSE {})
    IN [u \in keys |-> kids(u)]

\* the arguments of print_children: a tree and the roots, keys of base_urls
RenderArgs ==
    {[parents |-> TreeOf(kR, kA, kB, roots), children |-> roots] :
        kR \in SUBSET {NodeA, NodeB, NodeC}, kA \in SUBSET {NodeAC, NodeAD},
        kB \in SUBSET {NodeBC}, roots \in {{NodeR}, {NodeR, NodeE}}}

RenderInit ==
    /\ \E arg \in RenderArgs : call = [op |-> "none", arg |-> arg]
    /\ iter = AnchorHrefIterator_new(<<>>, 0, 1)
    /\ hrefs = <<>>
    /\ pstate = "idle"
    /\ CrawlerInit

\* handle_command_list calls print_children with an empty indentation
\* (crawler.rs:183-185)
PrintChildren ==
    /\ call.op = "none"
    /\ \E out \in print_children(call.arg.parents, 0, call.arg.children) :
          call' = [op |-> "print_children", arg |-> call.arg, out |-> out]
    /\ UNCHANGED <<iter, hrefs, pstate, cvars>>

RenderNext == PrintChildren

RenderSpec == RenderInit /\ [][RenderNext]_vars

\* the number of spaces a line starts with
LeadingSpaces(line) == Cardinality({k \in DOMAIN line : \A j \in 1..k : line[j] = " "})

\* a line without the spaces it starts with
Trimmed(line) == SubSeq(line, LeadingSpaces(line) + 1, Len(line))

\* the lines that are not empty, each without its indentation
RECURSIVE PrintedLabels(_)
PrintedLabels(out) ==
    IF out = <<>> THEN <<>>
    ELSE (IF Trimmed(Head(out)) = <<>> THEN <<>> ELSE <<Trimmed(Head(out))>>)
            \o PrintedLabels(Tail(out))

\* out renders the nodes of level at depth n: the lines of depth n before the
\* last one are the child-bearing nodes, each once and followed by a rendering
\* of its children at depth n + 1 up to the next one; the last line is the
\* childless nodes, space-joined in some order
RECURSIVE Renders(_, _, _, _)
Renders(out, parents, n, level) ==
    LET childed == {u \in level : parents[u] # {}}
        childless == {u \in level : parents[u] = {}}
        front == SubSeq(out, 1, Len(out) - 1)
        heads == {k \in DOMAIN front : LeadingSpaces(front[k]) = n}
        NextHead(k) == IF \E h \in heads : h > k
                       THEN CHOOSE h \in heads : h > k /\ \A g \in heads : g > k => h <= g
                       ELSE Len(front) + 1
    IN /\ out # <<>>
       /\ \E q \in Orders(childless) :
             out[Len(out)] = Spaces(n) \o JoinSpace([k \in DOMAIN q |-> Shown(q[k], n)])
       /\ front # <<>> => 1 \in heads
       /\ Cardinality(heads) = Cardinality(childed)
       /\ \A u \in childed : \E k \in heads : front[k] = Spaces(n) \o Shown(u, n)
       /\ \A k \in heads : \E u \in childed :
             /\ front[k] = Spaces(n) \o Shown(u, n)
             /\ Renders(SubSeq(front, k + 1, NextHead(k) - 1), parents, n + 1, parents[u])

\* root http://d/ with the children /a, childless, and /b, with the child /b/c
ExampleArg ==
    [parents |-> TreeOf({NodeA, NodeB}, {}, {NodeBC}, {NodeR}), children |-> {NodeR}]

\* C16 as stated: List renders the tree depth-first, every child-bearing node
\* followed by its subtree one level deeper and the childless nodes of a level
\* on one space-joined line after them, full URLs at depth 0 and paths below;
\* for the root with children /a and /b, /b with child /b/c, the output order
\* is the root, /b, /c, /a.
C16_ExampleAsStated ==
    call.op = "print_children" =>
        /\ Renders(call.out, call.arg.parents, 0, call.arg.children)
        /\ call.arg = ExampleArg =>
              PrintedLabels(call.out) =
                  <<UrlStr(NodeR), <<"/", "b">>, <<"/", "c">>, <<"/", "a">>>>

\* C16 amended: List renders the tree depth-first, every child-bearing node
\* followed by its subtree one level deeper and the childless nodes of a level
\* on one space-joined line after them (a line that is written, empty, when
\* the level has no childless node), full URLs at depth 0 and whole paths
\* below; for the root with children /a and /b, /b with child /b/c, the lines
\* are the root, /b, /b/c, /a and the empty line of the childless roots.
C16_RendersDepthFirst ==
    call.op = "print_children" =>
        /\ Renders(call.out, call.arg.parents, 0, call.arg.children)
        /\ call.arg = ExampleArg =>
              call.out = <<UrlStr(NodeR), <<" ", "/", "b">>,
                           <<" ", " ", "/", "b", "/", "c">>, <<" ", "/", "a">>, <<>>>>

C16_Witness ==
    /\ call.op = "print_children"
    /\ call.arg = ExampleArg
    /\ Len(call.out) = 5

(***************************************************************************)
(* Properties of the orchestrator.                                         *)
(***************************************************************************)
\* task t takes the step
Steps(t) == CopiesIn(t, tasks') < CopiesIn(t, tasks)

\* t has moved on to pc
MovesTo(t, pc) == tasks' = (tasks (-) One(t)) (+) One([t EXCEPT !.pc = pc])

UrlB ==
    [scheme |-> "http", host |-> HostD, port |-> <<>>, path |-> <<"/", "b">>,
     query |-> None, fragment |-> None]

\* the fetches of url in flight
FetchesInFlight(url) ==
    BagCardinality([t \in {x \in BagToSet(tasks) : x.pc = "fetching" /\ x.url = url} |-> tasks[t]])

\* GateSpec: Stop has returned and the second Start has not been sent
Stopped == ncmds = 2 /\ NumCmdTasks = 0

\* GateSpec: the second Start has returned
Restarted == ncmds = 3 /\ NumCmdTasks = 0

\* C1: after Start("http://d/a") and then Stop("http://d"), a start_job for
\* http://d/b spawned by link discovery ends at the domain gate: it creates
\* no job and no fetch of b begins; after the Start("http://d") that follows,
\* such a start_job passes the gate, and at its job, not fetched before, it
\* begins the fetch of b.
C1_DomainGateSequence ==
    [][\A t \in BagToSet(tasks) :
         /\ (t.pc = "job_gate" /\ t.from = "link" /\ t.url = UrlB /\ Steps(t)) =>
                /\ Stopped => /\ tasks' = tasks (-) One(t)
                              /\ UNCHANGED <<url_workers, workers, url_parents>>
                /\ Restarted => MovesTo(t, "job_has")
         /\ (t.pc = "job_lock" /\ t.url = UrlB /\ Steps(t) /\ Restarted
               /\ workers[t.w].last_access_timestamp = None) =>
                /\ MovesTo(t, "fetching")
                /\ FetchesInFlight(UrlB)' = FetchesInFlight(UrlB) + 1
      ]_vars

\* after the three commands a start_job spawned by a link has begun the
\* fetch of b at a job created after the job of the root, and no other
\* start_job for b and no parser worker of http://d/a is left: the other
\* start_job for b has ended at the gate
C1_Witness ==
    /\ Restarted
    /\ \E t \in BagToSet(tasks) :
          /\ t.pc = "fetching" /\ t.url = UrlB /\ t.from = "link"
          /\ t.w = 3
          /\ workers[t.w].last_access_timestamp = None
          /\ \A u \in BagToSet(tasks) :
                /\ u.url = UrlB => u = t /\ tasks[t] = 1
                /\ u.pc = "parse" => u.url # UrlParse(RawA).url

\* C11: no start_job is spawned for a link whose scheme or host differs
\* from its page's, every job and every key of url_parents belongs to a
\* domain that has a record in base_urls, and every child in url_parents has
\* the domain-only URL of its parent.
C11_NeverLeavesDomain ==
    /\ \A t \in BagToSet(tasks) :
          t.prev.some => t.prev.val.scheme = t.url.scheme /\ t.prev.val.host = t.url.host
    /\ \A u \in DOMAIN url_workers \cup DOMAIN url_parents :
          strip_url_to_domain(u) \in DOMAIN base_urls
    /\ \A p \in DOMAIN url_parents : \A c \in url_parents[p] :
          strip_url_to_domain(c) = strip_url_to_domain(p)

\* the domain of url has no record in base_urls or its record is not crawling
GateClosed(url) ==
    \/ strip_url_to_domain(url) \notin DOMAIN base_urls
    \/ ~base_urls[strip_url_to_domain(url)].crawling

\* C2: a start_job that reads the gate of its domain while the domain has
\* no record or is not crawling returns Ok and changes nothing: no job is
\* created, url_workers and url_parents stay as they are, and no fetch
\* begins, whether the job has a parent or not.
C2_ClosedGateNoAction ==
    [][\A t \in BagToSet(tasks) :
         (t.pc = "job_gate" /\ Steps(t) /\ GateClosed(t.url)) =>
            /\ tasks' = tasks (-) One(t)
            /\ UNCHANGED <<base_urls, url_workers, workers, url_parents, locks>>
            /\ last' = Returned(OpOf(t), t.from, "Ok")
      ]_vars

\* a Start command has just returned Ok from the closed gate
C2_Witness ==
    /\ last = Returned("Start", "command", "Ok")
    /\ printed = {"BaseUrlHasStoppedCrawling"}
    /\ ncmds = 2

\* the domain-only URL of the site
RootD == strip_url_to_domain(UrlB)

\* C12: Stop switches the record of its url's domain off when the domain
\* has one and creates none when it has not; it returns Ok, leaves
\* url_workers, the jobs with their timestamps and url_parents as they are,
\* and ends no task but its own: fetches and parser workers in flight go on.
C12_StopFrame ==
    [][\A t \in BagToSet(tasks) :
         (t.pc = "stop_flag" /\ Steps(t)) =>
            /\ base_urls' = IF t.url \in DOMAIN base_urls
                            THEN [base_urls EXCEPT ![t.url].crawling = FALSE]
                            ELSE base_urls
            /\ UNCHANGED <<url_workers, workers, url_parents>>
            /\ tasks' = tasks (-) One(t)
            /\ last' = Returned("Stop", "command", "Ok")
      ]_vars

\* Stop has just returned with the domain switched off while a fetch is in
\* flight
C12_Witness ==
    /\ last = Returned("Stop", "command", "Ok")
    /\ RootD \in DOMAIN base_urls /\ ~base_urls[RootD].crawling
    /\ \E t \in BagToSet(tasks) : t.pc = "fetching"

\* C13: a Start whose argument does not parse returns InvalidUrl and
\* changes no registry, no job and no task; otherwise, when start_job(None,
\* url) is called, the domain of url has a record that is crawling and the
\* domain-only root is a key of url_parents.
C13_StartActivatesDomain ==
    [][/\ (last'.op = "Start" /\ last'.result = "InvalidUrl") =>
            UNCHANGED <<base_urls, url_workers, workers, url_parents, tasks, locks>>
       /\ \A t \in BagToSet(tasks) :
            (t.pc = "start_register" /\ Steps(t)) =>
               /\ tasks' = (tasks (-) One(t)) (+)
                     One(Task("job_gate", strip_url_to_domain_and_path(t.url), None, 0, 0, "command"))
               /\ strip_url_to_domain(t.url) \in DOMAIN base_urls'
               /\ base_urls'[strip_url_to_domain(t.url)].crawling
               /\ strip_url_to_domain(t.url) \in DOMAIN url_parents'
      ]_vars

\* the first Start is about to call start_job: the domain is crawling and
\* its root is a key without children
C13_Witness ==
    /\ \E t \in BagToSet(tasks) : t.pc = "job_gate" /\ t.from = "command"
    /\ RootD \in DOMAIN base_urls /\ base_urls[RootD].crawling
    /\ RootD \in DOMAIN url_parents /\ url_parents[RootD] = {}
    /\ workers = <<>>

\* C18: a record of base_urls is created only by Start and never removed;
\* its flag is set to TRUE by Start and to FALSE by Stop and changed by no
\* other step, so the flag is what the last Start or Stop applied to the
\* domain made it.
C18_DomainStateLifecycle ==
    [][/\ DOMAIN base_urls \subseteq DOMAIN base_urls'
       /\ base_urls' # base_urls =>
            \E t \in BagToSet(tasks) :
               /\ Steps(t)
               /\ \/ t.pc = "start_flag"
                     /\ base_urls' = Put(base_urls, strip_url_to_domain(t.url), [crawling |-> TRUE])
                  \/ t.pc = "stop_flag" /\ t.url \in DOMAIN base_urls
                     /\ base_urls' = [base_urls EXCEPT ![t.url].crawling = FALSE]
       /\ \A t \in BagToSet(tasks) :
            /\ (t.pc = "start_flag" /\ Steps(t)) => base_urls'[strip_url_to_domain(t.url)].crawling
            /\ (t.pc = "stop_flag" /\ Steps(t) /\ t.url \in DOMAIN base_urls) =>
                  ~base_urls'[t.url].crawling
      ]_vars

\* a start_job spawned by a link has just read the flag Stop left and has
\* left it as it was
C18_Witness ==
    /\ last = Returned("StartJob", "link", "Ok")
    /\ printed = {"BaseUrlHasStoppedCrawling"}
    /\ RootD \in DOMAIN base_urls /\ ~base_urls[RootD].crawling

\* C3: a call of start on a job that has fetched begins only when no
\* fetch of that job is in flight; less than a minute after the fetch it
\* returns without a fetch and without parser workers, and a minute or more
\* after the fetch it fetches again.
C3_StalenessGate ==
    [][\A t \in BagToSet(tasks) :
         (t.pc = "job_lock" /\ Steps(t)) =>
            /\ \A u \in BagToSet(tasks) : u.pc = "fetching" => u.w # t.w
            /\ workers[t.w].last_access_timestamp.some =>
                  IF now - workers[t.w].last_access_timestamp.val
                        < TicksPerMinute * URL_MAX_STALE_MINUTES
                  THEN /\ tasks' = tasks (-) One(t)
                       /\ workers' = workers
                  ELSE /\ MovesTo(t, "fetching")
                       /\ workers'[t.w].locked
      ]_vars

\* a second fetch of a job is in flight
C3_Witness ==
    \E t \in BagToSet(tasks) :
        /\ t.pc = "fetching"
        /\ workers[t.w].last_access_timestamp.some
        /\ now - workers[t.w].last_access_timestamp.val >= TicksPerMinute * URL_MAX_STALE_MINUTES

\* the job has no timestamp or its timestamp is a minute old or older at t
NotFresh(job, t) ==
    \/ job.last_access_timestamp = None
    \/ t - job.last_access_timestamp.val >= TicksPerMinute * URL_MAX_STALE_MINUTES

\* C14: a fetch that fails makes start return the error, leaves the
\* timestamp of the job as it was and spawns no parser worker; the job is
\* then not fresh, a timestamp changes only when a fetch succeeds, and a
\* call of start on a job that is not fresh fetches.
C14_FetchFailureRetryable ==
    [][/\ \A t \in BagToSet(tasks) :
            /\ (t.pc = "fetching" /\ Steps(t) /\ last'.result # "Ok") =>
                  /\ last' = Returned(OpOf(t), t.from, "FetchFailed")
                  /\ workers'[t.w].last_access_timestamp = workers[t.w].last_access_timestamp
                  /\ ~workers'[t.w].locked
                  /\ tasks' = tasks (-) One(t)
                  /\ NotFresh(workers'[t.w], now')
            /\ (t.pc = "job_lock" /\ Steps(t) /\ NotFresh(workers[t.w], now)) =>
                  MovesTo(t, "fetching")
       /\ \A w \in 1..Len(workers) :
            workers'[w].last_access_timestamp # workers[w].last_access_timestamp =>
               \E t \in BagToSet(tasks) :
                  t.pc = "fetching" /\ t.w = w /\ Steps(t) /\ last'.result = "Ok"
       /\ now' >= now
      ]_vars

\* the fetch of a job spawned by a link has just failed, and every job has
\* a timestamp: the fetch that failed was a second fetch
C14_Witness ==
    /\ last = Returned("StartJob", "link", "FetchFailed")
    /\ workers # <<>>
    /\ \A w \in 1..Len(workers) : workers[w].last_access_timestamp.some

\* C17: a start_job with a parent that returns Ok after the gate has its
\* url in the child set of the parent, whether its job existed or not, and
\* its first step after the gate fails with ParentUrlWorkerNotFound when
\* the parent is no key of url_parents.
C17_RegistersBeforeLookup ==
    [][\A t \in BagToSet(tasks) :
         (t.prev.some /\ Steps(t)) =>
            /\ (t.pc \in {"job_lock", "fetching"} /\ last'.result = "Ok") =>
                  /\ t.prev.val \in DOMAIN url_parents'
                  /\ t.url \in url_parents'[t.prev.val]
            /\ (t.pc = "job_has" /\ t.prev.val \notin DOMAIN url_parents) =>
                  last' = Returned("StartJob", "link", "ParentUrlWorkerNotFound")
      ]_vars

\* C17 as the code has it: a start_job with a parent looks the job of its
\* url up first and leaves url_parents alone when the job exists; only
\* when there is none it adds the url to the children of the parent, or
\* returns ParentUrlWorkerNotFound, creating nothing, when the parent is no
\* key; no step takes a key or a child out of url_parents.
C17_RegistersWhenCreating ==
    [][/\ \A t \in BagToSet(tasks) :
            (t.prev.some /\ Steps(t)) =>
               /\ t.pc = "job_has" =>
                     /\ UNCHANGED url_parents
                     /\ IF t.url \in DOMAIN url_workers
                        THEN MovesTo(t, "job_get") ELSE MovesTo(t, "create_link")
               /\ t.pc = "create_link" =>
                     IF t.prev.val \in DOMAIN url_parents
                     THEN /\ url_parents' =
                               [url_parents EXCEPT ![t.prev.val] = @ \cup {t.url}]
                          /\ MovesTo(t, "create_new")
                     ELSE /\ UNCHANGED <<url_parents, url_workers, workers>>
                          /\ tasks' = tasks (-) One(t)
                          /\ last' = Returned("StartJob", "link", "ParentUrlWorkerNotFound")
               /\ t.pc \in {"job_get", "job_lock", "fetching"} => UNCHANGED url_parents
       /\ \A p \in DOMAIN url_parents :
            p \in DOMAIN url_parents' /\ url_parents[p] \subseteq url_parents'[p]
      ]_vars

\* a start_job with a parent has found the job of its url and goes on to
\* start it, and the url is no child of the parent
C17_Witness ==
    \E t \in BagToSet(tasks) :
        /\ t.pc = "job_lock" /\ t.prev.some
        /\ t.prev.val \in DOMAIN url_parents
        /\ t.url \notin url_parents[t.prev.val]

\* the number of tasks at pc
NumAt(pc) == BagCardinality([t \in {x \in BagToSet(tasks) : x.pc = pc} |-> tasks[t]])

\* the guards held are those of the tasks between two acquisitions
LocksAccounted ==
    /\ locks["base_urls"] = [writer |-> NumAt("start_register") > 0, readers |-> NumAt("list_tree")]
    /\ locks["url_workers"] = [writer |-> NumAt("create_register") > 0, readers |-> 0]
    /\ locks["url_parents"] = [writer |-> FALSE, readers |-> 0]
    /\ NumAt("start_register") <= 1 /\ NumAt("create_register") <= 1

\* C19: a task that waits for a registry lock holds no registry lock.
C19_NoTwoLocks ==
    \A t \in BagToSet(tasks) : WaitsFor(t) \in Registries => HeldBy(t) = {}

\* C19 as the code has it: a task that holds a registry lock at an await
\* holds base_urls alone or url_workers alone and awaits url_parents;
\* url_parents is never held at an await.
C19_LockOrder ==
    /\ LocksAccounted
    /\ \A t \in BagToSet(tasks) :
          HeldBy(t) # {} =>
             /\ HeldBy(t) \in {{"base_urls"}, {"url_workers"}}
             /\ WaitsFor(t) = "url_parents"

\* create_worker holds url_workers and awaits url_parents while
\* handle_command_list holds base_urls and awaits url_parents
C19_Witness ==
    /\ NumAt("create_register") = 1
    /\ NumAt("list_tree") = 1
    /\ locks["url_workers"].writer /\ locks["base_urls"].readers = 1

\* a registry lock is held
Held(l) == locks[l].writer \/ locks[l].readers > 0

\* C20: while a task fetches or a parser worker dispatches, every registry
\* lock that is held is held by some other task, one that neither fetches
\* nor dispatches nor waits for a job, and the lock that task awaits is
\* free: the registries can be acquired whatever the fetch does.
C20_NoLockAcrossFetch ==
    (\E t \in BagToSet(tasks) : t.pc \in {"fetching", "parse"}) =>
        \A l \in Registries :
            Held(l) =>
               \E h \in BagToSet(tasks) :
                  /\ l \in HeldBy(h)
                  /\ h.pc \notin {"job_lock", "fetching", "parse"}
                  /\ WaitsFor(h) \in Registries /\ ~Held(WaitsFor(h))

\* a fetch is in flight while create_worker of another job holds url_workers
C20_Witness ==
    /\ \E t \in BagToSet(tasks) : t.pc = "fetching"
    /\ locks["url_workers"].writer
    /\ NumAt("create_register") = 1

\* C4: no two fetches of one url are in flight at a time.
C4_AtMostOneFetchPerUrl ==
    \A t \in BagToSet(tasks) : t.pc = "fetching" => FetchesInFlight(t.url) <= 1

\* C5: in every state, every url in a child set of url_parents is a key of
\* url_parents.
C5_TreeInvariant ==
    \A p \in DOMAIN url_parents : url_parents[p] \subseteq DOMAIN url_parents

\* the error kinds that are not to be written to stderr
Suppressed == {"BaseUrlHasStoppedCrawling", "LinkUrlDoesNotMatchBaseUrl"}

\* C21: a start_job that finds its domain not crawling ends there, and
\* BaseUrlHasStoppedCrawling is never written to stderr, nor is
\* LinkUrlDoesNotMatchBaseUrl; every other error of link handling is written.
C21_ErrorDisplayPolicy ==
    [][/\ printed' \cap Suppressed = {}
       /\ \A t \in BagToSet(tasks) :
             /\ (t.pc = "job_gate" /\ Steps(t) /\ GateClosed(t.url)) => tasks' = tasks (-) One(t)
             /\ (t.pc = "parse" /\ Steps(t)) =>
                    \A k \in DOMAIN LinkResults(t) :
                        (~LinkResults(t)[k].ok /\ LinkResults(t)[k].err \notin Suppressed) =>
                            LinkResults(t)[k].err \in printed'
      ]_vars

\* the anchors the extractor yields from the pages of the site for partition
\* i of 4, and for the one partition of 1, computed once
SiteItems ==
    [url \in SiteUrls |-> [i \in 0..3 |-> find_anchors(SitePage(url), i, 4).items]]

SiteFull == [url \in SiteUrls |-> find_anchors(SitePage(url), 0, 1).items]

ItemsOf(url, i) ==
    IF url \in SiteUrls THEN SiteItems[url][i] ELSE find_anchors(SitePage(url), i, 4).items

FullOf(url) == IF url \in SiteUrls THEN SiteFull[url] ELSE find_anchors(SitePage(url), 0, 1).items

\* the anchors, each with its place in the text, of a sequence of items
AnchorsIn(items) == {items[k] : k \in DOMAIN items}

\* the tasks the step adds when task t takes it
SpawnedBy(t) == tasks' (-) (tasks (-) One(t))

\* C22: a fetch that succeeds leaves exactly 4 parser workers, with the
\* partition indices 0, 1, 2, 3 over the text of the page, and start returns
\* Ok in that step, before any of them has run; every href-bearing closed
\* anchor of the page is yielded to exactly one of them; a parser worker
\* spawns at most one start_job per anchor it is yielded, each with the url
\* of its job as parent.
C22_FanOutNoDuplicate ==
    [][\A t \in BagToSet(tasks) :
         /\ (t.pc = "fetching" /\ Steps(t) /\ last'.result = "Ok") =>
                /\ SpawnedBy(t) =
                      SetToBag({Task("parse", workers[t.w].url, None, 0, i, "worker") : i \in 0..3})
                /\ last' = Returned(OpOf(t), t.from, "Ok")
                /\ \A a \in AnchorsIn(FullOf(workers[t.w].url)) :
                      Cardinality({i \in 0..3 : a \in AnchorsIn(ItemsOf(workers[t.w].url, i))}) = 1
                /\ \A i \in 0..3 :
                      AnchorsIn(ItemsOf(workers[t.w].url, i)) \subseteq AnchorsIn(FullOf(workers[t.w].url))
         /\ (t.pc = "parse" /\ Steps(t)) =>
                /\ BagCardinality(SpawnedBy(t)) <= Len(ItemsOf(t.url, t.idx))
                /\ \A j \in BagToSet(SpawnedBy(t)) :
                      j.pc = "job_gate" /\ j.prev = Some(t.url) /\ j.from = "link"
      ]_vars

\* Start("http://d/a") has returned Ok from the fetch of a page of three
\* anchors while its 4 parser workers have not run
C22_Witness ==
    /\ last = Returned("Start", "command", "Ok")
    /\ NumAt("parse") = 4
    /\ \A t \in BagToSet(tasks) : t.pc = "parse" => t.url = UrlParse(RawA).url
    /\ Len(FullOf(UrlParse(RawA).url)) = 3

\* C23: a List that runs while Start commands and the start_job tasks of
\* link discovery are in flight returns Ok with the tree it has printed; it
\* never meets a url that is no key of url_parents.
C23_ListNeverPanics == last.op = "List" => last.result = "Ok"

\* StopSpec: Stop has been applied and has returned
StopApplied == ncmds = 2 /\ NumAt("stop_flag") = 0

\* no task is left: no fetch in flight, no start_job pending
Quiescent == tasks = EmptyBag

\* C24: once Stop("http://d") has been applied, with no Start after it, a
\* start_job for a url of the domain that reads the flag returns Ok and
\* changes no registry and begins no fetch; and the crawl reaches a state
\* with no fetch in flight and no task pending.
C24_StopQuiesces ==
    /\ [][StopApplied =>
            \A t \in BagToSet(tasks) :
               (t.pc = "job_gate" /\ Steps(t)) =>
                  /\ tasks' = tasks (-) One(t)
                  /\ last' = Returned(OpOf(t), t.from, "Ok")
                  /\ UNCHANGED <<base_urls, url_workers, workers, url_parents, locks>>
         ]_vars
    /\ (StopApplied ~> Quiescent)

\* after the Stop the crawl has come to rest with a start_job of a link
\* ending at the gate: the page of http://d/a was fetched, http://d/b has
\* no job
C24_Witness ==
    /\ StopApplied
    /\ Quiescent
    /\ last = Returned("StartJob", "link", "Ok")
    /\ UrlB \notin DOMAIN url_workers
    /\ \E k \in DOMAIN workers : workers[k].last_access_timestamp.some

\* C25: the crawl started by one Start on a site whose links form cycles
\* and self-links comes to rest: from the Start on, a state with no fetch in
\* flight and no start_job pending is reached and kept.
C25_CycleSafeTermination == (ncmds = 1) ~> []Quiescent

\* the crawl has come to rest with the pages of /a and /b fetched, the last
\* start_job of a link having returned Ok
C25_Witness ==
    /\ ncmds = 1
    /\ Quiescent
    /\ last = Returned("StartJob", "link", "Ok")
    /\ printed = {}
    /\ UrlB \in DOMAIN url_workers /\ UrlParse(RawA).url \in DOMAIN url_workers
    /\ \A k \in DOMAIN workers : workers[k].last_access_timestamp.some

\* C26: in every state no url is among its own descendants in url_parents,
\* and in particular none is its own child, so that the recursion of List
\* over the tree comes to an end.
C26_TreeAcyclic ==
    /\ \A u \in DOMAIN url_parents : u \notin Visited(url_parents[u])
    /\ last.op = "List" => last.result # "stack overflow"

\* the errors of create_worker for a parent or a root that is no key
InternalErrors == {"ParentUrlWorkerNotFound", "BaseUrlNotFound"}

\* C27: under Start, Stop and List commands and the link discovery they
\* cause, no start_job returns or prints ParentUrlWorkerNotFound or
\* BaseUrlNotFound: whenever create_worker is about to look up the parent of
\* a link, or the domain-only root of a started url, it is a key of
\* url_parents.
C27_NoInternalErrors ==
    /\ last.result \notin InternalErrors
    /\ printed \cap InternalErrors = {}
    /\ \A t \in BagToSet(tasks) : t.pc = "create_link" => ParentKey(t) \in DOMAIN url_parents

\* create_worker has found the parent of a link and the root of a started
\* url: the job of a link of http://d/a is being created, filed under it,
\* and http://d/a is filed under the root
C27_Witness ==
    /\ \E t \in BagToSet(tasks) :
          /\ t.pc = "create_new" /\ t.from = "link"
          /\ t.prev = Some(UrlParse(RawA).url)
          /\ t.url \in url_parents[t.prev.val]
    /\ UrlParse(RawA).url \in url_parents[RootD]

\* the task requests the write half of the lock it waits for
NeedsWrite(t) ==
    t.pc \in {"start_flag", "stop_flag", "create_new", "start_register", "create_register",
              "create_link"}

\* the task waits for a lock that it cannot have now
Blocked(t) ==
    IF WaitsFor(t) \in Registries
    THEN IF NeedsWrite(t) THEN ~CanWrite(WaitsFor(t)) ELSE ~CanRead(WaitsFor(t))
    ELSE WaitsFor(t) = "job" /\ workers[t.w].locked

\* task h holds the lock task t waits for
HoldsLockOf(h, t) ==
    \/ WaitsFor(t) \in Registries /\ WaitsFor(t) \in HeldBy(h)
    \/ WaitsFor(t) = "job" /\ h.pc = "fetching" /\ h.w = t.w

\* a registry lock or the lock of a job is held
SomeLockHeld == (\E l \in Registries : Held(l)) \/ (\E w \in DOMAIN workers : workers[w].locked)

\* C28: a task that cannot have the lock it waits for waits for a task that
\* holds it and waits for no lock it cannot have, so no tasks wait for each
\* other in a cycle; and whenever locks are held, registry locks or job
\* locks, a state follows in which all of them have been released, so that
\* a task that requests a lock acquires it.
C28_DeadlockFreedom ==
    /\ [](\A t \in BagToSet(tasks) :
            Blocked(t) => \E h \in BagToSet(tasks) : HoldsLockOf(h, t) /\ ~Blocked(h))
    /\ SomeLockHeld ~> ~SomeLockHeld

\* a start_job waits for the lock of a job that is being fetched while
\* another task waits for a registry lock that create_worker holds
C28_Witness ==
    /\ \E t \in BagToSet(tasks) : t.pc = "job_lock" /\ Blocked(t)
    /\ \E u \in BagToSet(tasks) : WaitsFor(u) \in Registries /\ Blocked(u)

(***************************************************************************)
(* ParserSpec: one iterator over a text of Texts, driven by repeated       *)
(* calls of next(), as Iterator::collect does.                             *)
(***************************************************************************)
ParserInit ==
    /\ \E html \in Texts, index \in 0..MaxIndex, max_index \in 0..MaxN :
          iter = AnchorHrefIterator_new(html, index, max_index)
    /\ hrefs = <<>>
    /\ pstate = "running"
    /\ call = NoCall
    /\ CrawlerInit

\* next() returns Some(href)
NextYields ==
    /\ pstate = "running"
    /\ LET r == IterNext(iter) IN
       /\ r.ret = "yield"
       /\ iter' = r.st
       /\ hrefs' = Append(hrefs, [href |-> r.href, at |-> r.st.pos])
    /\ UNCHANGED pstate

\* next() returns None
NextEnds ==
    /\ pstate = "running"
    /\ LET r == IterNext(iter) IN
       /\ r.ret = "none"
       /\ iter' = r.st
    /\ pstate' = "done"
    /\ UNCHANGED hrefs

\* next() faults on anchor_tag_counter % 0
NextPanics ==
    /\ pstate = "running"
    /\ LET r == IterNext(iter) IN
       /\ r.ret = "panic"
       /\ iter' = r.st
    /\ pstate' = "panicked"
    /\ UNCHANGED hrefs

ParserNext == (NextYields \/ NextEnds \/ NextPanics) /\ UNCHANGED <<cvars, call>>

ParserSpec == ParserInit /\ [][ParserNext]_vars

(***************************************************************************)
(* Properties of the anchor extractor, checked under ParserSpec.           *)
(***************************************************************************)
\* the hrefs of a sequence of items
HrefsOf(items) == [k \in 1..Len(items) |-> items[k].href]

ItemSet(items) == {items[k] : k \in 1..Len(items)}

\* extractor(text, 0, 1): the full result
FullResult(html) == find_anchors(html, 0, 1).items

\* the iterator state after the first k characters of html (which characters
\* a partition returns does not change how the text is scanned)
RECURSIVE ScanTo(_, _)
ScanTo(st, k) ==
    IF st.pos >= k THEN st
    ELSE LET r == ScanChar([st EXCEPT !.pos = @ + 1], st.html[st.pos + 1]) IN ScanTo(r.st, k)

ScanPrefix(html, k) == ScanTo(AnchorHrefIterator_new(html, 0, 1), k)

\* position p of html holds the '>' of a closing tag of an a element:
\* the tag that starts at the last '<' before p is named /a
LastLt(html, p) == CHOOSE k \in 1..(p - 1) : html[k] = "<" /\ \A j \in (k + 1)..(p - 1) : html[j] # "<"

TagNameFrom(html, k, p) ==
    LET stops == {j \in (k + 1)..(p - 1) : IsWhitespace(html[j])}
        e == IF stops = {} THEN p - 1 ELSE (CHOOSE j \in stops : \A i \in stops : j <= i) - 1
    IN SubSeq(html, k + 1, e)

ClosingTagAt(html, p) ==
    /\ p \in 1..Len(html)
    /\ html[p] = ">"
    /\ \E k \in 1..(p - 1) : html[k] = "<"
    /\ LET name == TagNameFrom(html, LastLt(html, p), p) IN
       StartsWithSlash(name) /\ TrimStartSlashes(name) = TagA

\* the number of closed <a>...</a> pairs of html: the closing tags scanned
\* while an anchor is open
ClosedAnchorPairs(html) ==
    Cardinality({p \in 1..Len(html) :
        ClosingTagAt(html, p) /\ ScanPrefix(html, p - 1).in_anchor_tag_text})

RunComplete == pstate = "done" /\ iter.max_index >= 1

\* C6: for every text and partition count n >= 1 the partitions 0..n-1
\* together yield exactly the full result of extractor(text, 0, 1), and no
\* anchor occurrence is yielded by two partition indices.
C6_PartitionCompleteDisjoint ==
    RunComplete =>
        LET html == iter.html
            n == iter.max_index
            part(i) == IF i = iter.index THEN hrefs ELSE find_anchors(html, i, n).items
            full == FullResult(html)
        IN /\ UNION {ItemSet(part(i)) : i \in 0..(n - 1)} = ItemSet(full)
           /\ UNION {ItemSet(HrefsOf(part(i))) : i \in 0..(n - 1)} = ItemSet(HrefsOf(full))
           /\ \A i, j \in 0..(n - 1) :
                i # j => \A a \in ItemSet(part(i)), b \in ItemSet(part(j)) : a.at # b.at

C6_Witness ==
    /\ RunComplete
    /\ iter.max_index = 2
    /\ iter.index = 1
    /\ Len(hrefs) = 1
    /\ Len(FullResult(iter.html)) = 3

\* C7: an href is yielded only when the '>' of a closing </a> is scanned while
\* an anchor is open, and a text in which no anchor is closed yields nothing,
\* for every partition index and count n >= 1.
C7_ClosedTagRequired ==
    iter.max_index >= 1 =>
        /\ \A k \in 1..Len(hrefs) :
             /\ ClosingTagAt(iter.html, hrefs[k].at)
             /\ ScanPrefix(iter.html, hrefs[k].at - 1).in_anchor_tag_text
        /\ (\A p \in 1..Len(iter.html) : ~ClosingTagAt(iter.html, p)) => hrefs = <<>>

C7_Witness ==
    /\ RunComplete
    /\ iter.html = FragOther \o FragOpenZ
    /\ iter.index = 0
    /\ hrefs = <<>>

C9_CounterCountsEveryClosedAnchor ==
    RunComplete => iter.anchor_tag_counter = ClosedAnchorPairs(iter.html)

\* C10 (as claimed): with n = 0 the run to completion faults for every text.
C10_ZeroAlwaysFaults ==
    (iter.max_index = 0 /\ pstate # "running") => pstate = "panicked"

\* C10 (amended): with n = 0 no href is ever returned; the run faults at the
\* first closed anchor that carries an href, and ends normally with an empty
\* result exactly when the text has no such anchor.
C10_ZeroFaultsAtFirstHref ==
    iter.max_index = 0 =>
        /\ hrefs = <<>>
        /\ pstate = "panicked" =>
             /\ FullResult(iter.html) # <<>>
             /\ iter.pos = FullResult(iter.html)[1].at
        /\ pstate = "done" => FullResult(iter.html) = <<>>

C10_Witness ==
    /\ iter.max_index = 0
    /\ pstate = "panicked"
    /\ iter.html = FragAnchorNoHref \o FragAnchorX

=============================================================================
